---- MODULE Spec2Model ----
(***************************************************************************)
(* A model of gwas_genes' proximity join:                                  *)
(* lib/gwas_genes/Utils/get_gene_function.py, analyze_snps_and_genes.      *)
(*                                                                         *)
(* One run of analyze_snps_and_genes is a behaviour: the two input files   *)
(* and the two thresholds are fixed by Init, and the actions are the       *)
(* stages of the function in program order (gene load, SNP load, p-value   *)
(* filter, one annotation step per retained SNP, the gene-centric fold,    *)
(* one step per valid association, and the summary).  Under SpecRun the    *)
(* function is called by the per-file loop of gwas_genes.run_gwas_genes    *)
(* (lib/gwas_genes/gwas_genesImpl.py), once per GWAS file.                 *)
(*                                                                         *)
(* Representation.  Python None is NoneV (numbers) or NoneS (strings), a   *)
(* float NaN is NaN.  P-values are counted in units of 1/POne, so that the *)
(* literal 1.0 of the source is POne.  A pandas DataFrame is the sequence  *)
(* of its rows, each row carrying its index label in the field idx.  A     *)
(* dict is the sequence of its entries in insertion order.  A JSON key     *)
(* that may be absent is an option: <<>> when absent, <<v>> when present.  *)
(***************************************************************************)
EXTENDS Integers, Sequences, FiniteSets, TLC

VARIABLES
    gene_file,              \* parsed gene JSON: [features |-> <<feature, ...>>]
    snp_file,               \* parsed SNP JSON: [association_details |-> <<group, ...>>]
    distance_threshold,     \* parameter
    pvalue_threshold,       \* parameter, in units of 1/POne
    gene_df,                \* DataFrame of gene records (l.111)
    snp_records,            \* list of SNP dicts (l.119-129)
    gwas_df,                \* DataFrame of SNPs, after the p-value filter (l.132-139)
    orig_count,             \* l.137
    filtered_count,         \* l.140 / l.144
    snp_i,                  \* position of the per-SNP loop in gwas_df (l.152)
    snp_gene_records,       \* list of association dicts (l.149)
    snp_gene_df,            \* l.256
    valid_snp_gene_df,      \* l.260
    row_i,                  \* position of the fold loop in valid_snp_gene_df (l.266)
    gene_snp_dict,          \* l.263
    result,                 \* the returned dict (l.370), once pc = "done"
    raised,                 \* the exception that ended the run, NoneS if none
    pc,                     \* the stage the function is at
    gwas_files,             \* run_gwas_genes: the GWAS files written (Impl l.90-101)
    file_i,                 \* run_gwas_genes: position of the per-file loop (Impl l.111)
    all_csvs,               \* run_gwas_genes: Impl l.110
    run_log,                \* run_gwas_genes: the logging calls of the loop (Impl l.120-140)
    run_raised,             \* run_gwas_genes: the exception that ended it, NoneS if none
    run_pc                  \* run_gwas_genes: the stage it is at

vars == <<gene_file, snp_file, distance_threshold, pvalue_threshold, gene_df,
          snp_records, gwas_df, orig_count, filtered_count, snp_i,
          snp_gene_records, snp_gene_df, valid_snp_gene_df, row_i,
          gene_snp_dict, result, raised, pc,
          gwas_files, file_i, all_csvs, run_log, run_raised, run_pc>>

run_vars == <<gwas_files, file_i, all_csvs, run_log, run_raised, run_pc>>

(***************************************************************************)
(* Values                                                                  *)
(***************************************************************************)
NoneV == -1
NaN == -2
NoneS == "<None>"
POne == 3
MinFields == 5

MaxGenes == 2
MaxSnps == 2

Abs(x) == IF x < 0 THEN -x ELSE x
Min2(a, b) == IF b < a THEN b ELSE a

SeqsUpTo(S, n) == UNION {[1..k -> S] : k \in 0..n}

RECURSIVE join_str(_, _)
\* sep.join(items)
join_str(sep, items) ==
    IF items = <<>> THEN ""
    ELSE IF Len(items) = 1 THEN items[1]
    ELSE items[1] \o sep \o join_str(sep, Tail(items))

\* pd.isna(x) on a scalar
isna(x) == x = NoneV \/ x = NaN

\* f"{x}" of a p-value
fmt_pvalue(p) == IF p = NaN THEN "nan" ELSE ToString(p)

(***************************************************************************)
(* Gene catalog loader, l.64-111                                           *)
(***************************************************************************)
\* fault model: the strand is ignored
gene_start_unstranded(location) == location[2] - 1

gene_start(location) ==
    IF location[3] = "-" THEN location[2] - location[4] ELSE location[2] - 1

gene_end(location) ==
    IF location[3] = "-" THEN location[2] ELSE gene_start(location) + location[4]

gene_function(j) ==
    IF j.functions = <<>> THEN NoneS ELSE join_str(" ", j.functions[1])

gene_go_terms(j) ==
    IF j.ontology_terms = <<>> THEN NoneS
    ELSE IF j.ontology_terms[1].GO = <<>> THEN NoneS
    ELSE join_str(", ", j.ontology_terms[1].GO[1])

gene_record(j, i) ==
    LET location == j.location[1] IN
    [idx |-> i - 1,
     gene_id |-> j.id,
     function |-> gene_function(j),
     go_terms |-> gene_go_terms(j),
     location |-> location,
     chr |-> location[1],
     orientation |-> location[3],
     start |-> gene_start(location),
     end |-> gene_end(location)]

load_genes(data) ==
    [i \in 1..Len(data.features) |-> gene_record(data.features[i], i)]

(***************************************************************************)
(* Variant catalog loader, l.113-132                                       *)
(***************************************************************************)
snp_record(res) ==
    [chr |-> res[1], snp_id |-> res[2], pos |-> res[3], pvalue |-> res[4],
     additional_value |-> res[5]]

\* fault model: the loop ends at the first short tuple
RECURSIVE results_of_until_short(_)
results_of_until_short(results) ==
    IF results = <<>> THEN <<>>
    ELSE IF Len(Head(results)) >= MinFields
         THEN <<snp_record(Head(results))>> \o results_of_until_short(Tail(results))
         ELSE <<>>

RECURSIVE results_of(_)
results_of(results) ==
    IF results = <<>> THEN <<>>
    ELSE (IF Len(Head(results)) >= MinFields
          THEN <<snp_record(Head(results))>> ELSE <<>>)
         \o results_of(Tail(results))

RECURSIVE load_snps(_)
load_snps(details) ==
    IF details = <<>> THEN <<>>
    ELSE results_of(Head(details).association_results) \o load_snps(Tail(details))

\* pd.DataFrame(list of dicts) on the pvalue column: a column holding a number
\* is float64 and its None become NaN; a column of None alone stays object.
frame_pvalue(records) ==
    IF \E k \in 1..Len(records) : records[k].pvalue # NoneV
    THEN [k \in 1..Len(records) |->
            [records[k] EXCEPT !.pvalue = IF @ = NoneV THEN NaN ELSE @]]
    ELSE records

with_index(records) ==
    [k \in 1..Len(records) |-> [idx |-> k - 1] @@ records[k]]

\* l.132
make_gwas_df(records) == with_index(frame_pvalue(records))

(***************************************************************************)
(* P-value filter, l.136-146                                               *)
(***************************************************************************)
\* fault model: the boundary is excluded
pvalue_lt(p, threshold) == ~isna(p) /\ p < threshold

\* fault model: the comparison is reversed
pvalue_ge(p, threshold) == ~isna(p) /\ p >= threshold

pvalue_le(p, threshold) == ~isna(p) /\ p <= threshold

filter_applies(threshold) == threshold < POne

filter_pvalue(df, threshold) ==
    IF filter_applies(threshold)
    THEN SelectSeq(df, LAMBDA snp : pvalue_le(snp.pvalue, threshold))
    ELSE df

(***************************************************************************)
(* Proximity annotator, l.148-256                                          *)
(***************************************************************************)
\* fault model: the distance to the gene's end is forgotten
calculate_distance_to_start(snp_pos, gene) ==
    IF gene.is_within_gene THEN 0 ELSE Abs(snp_pos - gene.start)

\* l.47-62
calculate_distance(snp_pos, gene) ==
    IF gene.is_within_gene THEN 0
    ELSE Min2(Abs(snp_pos - gene.start), Abs(snp_pos - gene.end))

\* l.163
is_within_gene(snp_pos, gene) == (snp_pos >= gene.start) /\ (snp_pos <= gene.end)

\* l.158-171: the genes of one chromosome, with the two computed columns
genes_on_chr(df, snp_chr, snp_pos) ==
    LET same == SelectSeq(df, LAMBDA gene : gene.chr = snp_chr)
        within == [k \in 1..Len(same) |->
                     [is_within_gene |-> is_within_gene(snp_pos, same[k])] @@ same[k]]
    IN  [k \in 1..Len(within) |->
           [distance |-> calculate_distance(snp_pos, within[k])] @@ within[k]]

\* fault model: the boundary is excluded
nearby_genes_strict(on_chr, threshold) ==
    SelectSeq(on_chr, LAMBDA gene : gene.distance < threshold)

\* l.174
nearby_genes(on_chr, threshold) ==
    SelectSeq(on_chr, LAMBDA gene : gene.distance <= threshold)

\* l.178: DataFrame.sort_values('distance') with the default kind='quicksort',
\* which pandas and numpy document as not stable: every ascending order of the
\* rows is a possible result, rows of equal distance in any relative order.
sort_values_distance(df) ==
    LET n == Len(df)
        orders == {p \in [1..n -> 1..n] :
                     /\ \A a, b \in 1..n : a # b => p[a] # p[b]
                     /\ \A a \in 1..n : a < n => df[p[a]].distance <= df[p[a + 1]].distance}
    IN  {[k \in 1..n |-> df[p[k]]] : p \in orders}

\* fault model: the - strand is classified like the + strand
snp_position_category_unstranded(snp_pos, gene) ==
    IF gene.is_within_gene THEN "within gene"
    ELSE IF snp_pos < gene.start THEN "5'" ELSE "3'"

\* l.188-203
snp_position_category(snp_pos, gene) ==
    IF gene.is_within_gene THEN "within gene"
    ELSE IF gene.orientation = "+"
         THEN (IF snp_pos < gene.start THEN "5'" ELSE "3'")
         ELSE (IF snp_pos > gene.end THEN "5'" ELSE "3'")

\* l.155
snp_pvalue(snp) == IF ~isna(snp.pvalue) THEN snp.pvalue ELSE NoneV

\* l.205-219.  snp_idx and gene_idx are the index labels that the two iterrows()
\* loops yield beside the row (bound to _ in the source).
gene_association(snp, gene) ==
    [snp_idx |-> snp.idx,
     gene_idx |-> gene.idx,
     snp_chr |-> snp.chr,
     snp_id |-> snp.snp_id,
     snp_pos |-> snp.pos,
     pvalue |-> snp_pvalue(snp),
     gene_id |-> gene.gene_id,
     gene_start |-> gene.start,
     gene_end |-> gene.end,
     gene_orientation |-> gene.orientation,
     distance |-> gene.distance,
     is_within_gene |-> gene.is_within_gene,
     snp_position_category |-> snp_position_category(snp.pos, gene),
     gene_function |-> gene.function,
     gene_go_terms |-> gene.go_terms]

\* l.222-236 and l.239-253
null_association(snp) ==
    [snp_idx |-> snp.idx,
     gene_idx |-> NoneV,
     snp_chr |-> snp.chr,
     snp_id |-> snp.snp_id,
     snp_pos |-> snp.pos,
     pvalue |-> snp_pvalue(snp),
     gene_id |-> NoneS,
     gene_start |-> NoneV,
     gene_end |-> NoneV,
     gene_orientation |-> NoneS,
     distance |-> NoneV,
     is_within_gene |-> FALSE,
     snp_position_category |-> NoneS,
     gene_function |-> NoneS,
     gene_go_terms |-> NoneS]

\* fault model: a SNP without gene in reach yields no record
snp_blocks_matched_only(df, snp, threshold) ==
    LET on_chr == genes_on_chr(df, snp.chr, snp.pos)
        nearby == nearby_genes(on_chr, threshold)
    IN  IF Len(on_chr) > 0 /\ Len(nearby) > 0
        THEN {[k \in 1..Len(sorted) |-> gene_association(snp, sorted[k])] :
                sorted \in sort_values_distance(nearby)}
        ELSE {<<>>}

\* l.152-253, one iteration: the possible blocks of records of one SNP
snp_blocks(df, snp, threshold) ==
    LET on_chr == genes_on_chr(df, snp.chr, snp.pos)
        nearby == nearby_genes(on_chr, threshold)
    IN  IF Len(on_chr) > 0 /\ Len(nearby) > 0
        THEN {[k \in 1..Len(sorted) |-> gene_association(snp, sorted[k])] :
                sorted \in sort_values_distance(nearby)}
        ELSE {<<null_association(snp)>>}

(***************************************************************************)
(* Gene-centric aggregator, l.258-320                                      *)
(***************************************************************************)
\* l.256: pd.DataFrame(snp_gene_records)
make_snp_gene_df(records) == frame_pvalue(records)

\* l.260
valid_rows(df) == SelectSeq(df, LAMBDA row : row.gene_id # NoneS)

\* row['pvalue'] is not None
is_not_None(x) == x # NoneV

\* l.268-278
snp_info(row) ==
    row.snp_id
    \o (IF is_not_None(row.pvalue) THEN " (p=" \o fmt_pvalue(row.pvalue) \o ")" ELSE "")
    \o (IF row.is_within_gene THEN " [within gene]"
        ELSE " [" \o ToString(row.distance) \o ", " \o row.snp_position_category \o "]")

\* min(a, b) of Python: b only when b < a, and no comparison with NaN is true
py_min(a, b) == IF a # NaN /\ b # NaN /\ b < a THEN b ELSE a

\* l.282-297
new_entry(row) ==
    [gene_id |-> row.gene_id,
     chr |-> row.snp_chr,
     gene_start |-> row.gene_start,
     gene_end |-> row.gene_end,
     gene_orientation |-> row.gene_orientation,
     gene_function |-> row.gene_function,
     gene_go_terms |-> row.gene_go_terms,
     associated_snps |-> <<>>,
     snp_count |-> 0,
     min_pvalue |-> IF is_not_None(row.pvalue) THEN row.pvalue ELSE NoneV]

\* fault model: the count is set, not incremented
add_row_count_set(entry, row) ==
    [entry EXCEPT
       !.associated_snps = Append(@, snp_info(row)),
       !.snp_count = 1,
       !.min_pvalue = IF is_not_None(row.pvalue)
                      THEN (IF @ = NoneV THEN row.pvalue ELSE py_min(@, row.pvalue))
                      ELSE @]

\* l.300-308
add_row(entry, row) ==
    [entry EXCEPT
       !.associated_snps = Append(@, snp_info(row)),
       !.snp_count = @ + 1,
       !.min_pvalue = IF is_not_None(row.pvalue)
                      THEN (IF @ = NoneV THEN row.pvalue ELSE py_min(@, row.pvalue))
                      ELSE @]

has_key(dict, gene_id) == \E k \in 1..Len(dict) : dict[k].gene_id = gene_id

\* fault model: the gene metadata follow the latest association of the gene
fold_row_latest_metadata(dict, row) ==
    LET d == IF has_key(dict, row.gene_id)
             THEN [k \in 1..Len(dict) |->
                     IF dict[k].gene_id = row.gene_id
                     THEN [dict[k] EXCEPT !.chr = row.snp_chr,
                                          !.gene_start = row.gene_start,
                                          !.gene_end = row.gene_end,
                                          !.gene_orientation = row.gene_orientation,
                                          !.gene_function = row.gene_function,
                                          !.gene_go_terms = row.gene_go_terms]
                     ELSE dict[k]]
             ELSE Append(dict, new_entry(row))
    IN  [k \in 1..Len(d) |->
           IF d[k].gene_id = row.gene_id THEN add_row(d[k], row) ELSE d[k]]

\* l.266-308, one iteration
fold_row(dict, row) ==
    LET d == IF has_key(dict, row.gene_id) THEN dict ELSE Append(dict, new_entry(row))
    IN  [k \in 1..Len(d) |->
           IF d[k].gene_id = row.gene_id THEN add_row(d[k], row) ELSE d[k]]

\* l.266-308, the loop over the rows
RECURSIVE FoldAll(_, _)
FoldAll(dict, rows) ==
    IF rows = <<>> THEN dict
    ELSE FoldAll(fold_row(dict, Head(rows)), Tail(rows))

\* l.310-320
make_gene_snp_df(dict) ==
    [k \in 1..Len(dict) |->
       [dict[k] EXCEPT !.associated_snps = join_str(", ", @)]]

\* l.354-362
make_summary(oc, fc, genes, assoc, centric, dt, pt) ==
    [total_snps |-> oc,
     filtered_snps |-> fc,
     total_genes |-> Len(genes),
     snp_gene_associations |-> Len(assoc),
     gene_centric_records |-> Len(centric),
     distance_threshold |-> dt,
     pvalue_threshold |-> pt]

\* l.322-330, with output_prefix "out"
output_files(dt, pt) ==
    LET threshold_info == "_d" \o ToString(dt)
                          \o (IF pt < POne THEN "_p" \o ToString(pt) ELSE "")
    IN  [gene_function_file |-> NoneS,
         snp_analysis_file |-> "out_SNP_GWAS_analysis" \o threshold_info \o ".csv",
         gene_centric_file |-> "out_gene_centric_GWAS" \o threshold_info \o ".csv"]

(***************************************************************************)
(* Inputs.  Two families of runs: one varies the gene catalog, the SNP     *)
(* position and the distance threshold around a single SNP; the other      *)
(* varies the SNP file and the p-value threshold over two fixed catalogs.  *)
(***************************************************************************)
Chroms == {"chr1", "chr2"}
Strands == {"+", "-"}

Feature(id, location, functions, ontology_terms) ==
    [id |-> id, location |-> <<location>>, functions |-> functions,
     ontology_terms |-> ontology_terms]

Annotated == Feature("", <<>>, <<<<"kinase", "domain">>>>, <<[GO |-> <<<<"GO:1", "GO:2">>>>]>>)

\* location descriptors (chromosome, coordinate, strand, length)
GeomLocations == {<<c, 3, s, l>> : c \in Chroms, s \in Strands, l \in 1..2}

GeomGeneFiles ==
    {[features |-> [i \in 1..Len(locs) |->
                      Feature("g" \o ToString(i), locs[i],
                              Annotated.functions, Annotated.ontology_terms)]] :
       locs \in SeqsUpTo(GeomLocations, MaxGenes)}

GeomSnpFiles ==
    {[association_details |-> <<[association_results |-> <<<<"chr1", "rs1", pos, 1, 0>>>>]>>] :
       pos \in 0..5}

\* g1 = [2, 4] on +, g2 = [4, 6] on -, g2 without functions and GO terms
CatalogPlain ==
    [features |-> <<Feature("g1", <<"chr1", 3, "+", 2>>,
                            Annotated.functions, Annotated.ontology_terms),
                    Feature("g2", <<"chr1", 6, "-", 2>>, <<>>, <<[GO |-> <<>>]>>)>>]

\* the same gene_id on two features ("No deduplication"), the second bare
CatalogDuplicate ==
    [features |-> <<Feature("g1", <<"chr1", 3, "+", 2>>,
                            Annotated.functions, Annotated.ontology_terms),
                    Feature("g1", <<"chr1", 6, "-", 2>>, <<<<>>>>, <<>>)>>]

\* result tuples without their id: (chromosome, position, p-value, fields)
ResultShapes ==
    {<<"chr1", pos, p, 5>> : pos \in {1, 4}, p \in {NoneV, 1, 2}}
    \cup {<<"chr2", 4, p, 5>> : p \in {NoneV, 1, 2}}
    \cup {<<"chr1", 4, 1, 4>>}

Result(shape, i) ==
    IF shape[4] >= 5
    THEN <<shape[1], "rs" \o ToString(i), shape[2], shape[3], 0>>
    ELSE <<shape[1], "rs" \o ToString(i), shape[2], shape[3]>>

\* the result tuples in one association group, or split after the first
Groupings(results) ==
    {<<[association_results |-> results]>>}
    \cup (IF results = <<>> THEN {<<>>}
          ELSE {<<[association_results |-> <<Head(results)>>],
                  [association_results |-> Tail(results)]>>})

PvalSnpFiles ==
    UNION {{[association_details |-> g] :
              g \in Groupings([i \in 1..Len(shapes) |-> Result(shapes[i], i)])} :
           shapes \in SeqsUpTo(ResultShapes, MaxSnps)}

Inputs ==
    \/ /\ gene_file \in GeomGeneFiles
       /\ snp_file \in GeomSnpFiles
       /\ distance_threshold \in 0..2
       /\ pvalue_threshold = POne
    \/ /\ gene_file \in {CatalogPlain, CatalogDuplicate}
       /\ snp_file \in PvalSnpFiles
       /\ distance_threshold = 2
       /\ pvalue_threshold \in {1, POne}

(***************************************************************************)
(* The run                                                                 *)
(***************************************************************************)
Unset == <<>>

\* the locals of analyze_snps_and_genes before its first statement
Entered ==
    /\ gene_df = <<>>
    /\ snp_records = <<>>
    /\ gwas_df = <<>>
    /\ orig_count = 0
    /\ filtered_count = 0
    /\ snp_i = 0
    /\ snp_gene_records = <<>>
    /\ snp_gene_df = <<>>
    /\ valid_snp_gene_df = <<>>
    /\ row_i = 0
    /\ gene_snp_dict = <<>>
    /\ result = Unset
    /\ raised = NoneS

\* analyze_snps_and_genes called on its own (l.383-405), outside run_gwas_genes
CalledDirectly ==
    /\ gwas_files = <<>>
    /\ file_i = 0
    /\ all_csvs = <<>>
    /\ run_log = <<>>
    /\ run_raised = NoneS
    /\ run_pc = "direct"

Init ==
    /\ Inputs
    /\ Entered
    /\ pc = "load_genes"
    /\ CalledDirectly

Raise(exception) ==
    /\ raised' = exception
    /\ pc' = "raised"

\* l.64-111
LoadGenes ==
    /\ pc = "load_genes"
    /\ gene_df' = load_genes(gene_file)
    /\ pc' = "load_snps"
    /\ UNCHANGED run_vars
    /\ UNCHANGED <<gene_file, snp_file, distance_threshold, pvalue_threshold,
                   snp_records, gwas_df, orig_count, filtered_count, snp_i,
                   snp_gene_records, snp_gene_df, valid_snp_gene_df, row_i,
                   gene_snp_dict, result, raised>>

\* l.113-132
LoadSnps ==
    /\ pc = "load_snps"
    /\ snp_records' = load_snps(snp_file.association_details)
    /\ gwas_df' = make_gwas_df(snp_records')
    /\ pc' = "filter"
    /\ UNCHANGED run_vars
    /\ UNCHANGED <<gene_file, snp_file, distance_threshold, pvalue_threshold,
                   gene_df, orig_count, filtered_count, snp_i,
                   snp_gene_records, snp_gene_df, valid_snp_gene_df, row_i,
                   gene_snp_dict, result, raised>>

\* l.136-149.  A DataFrame built from no record has no column, and
\* gwas_df['pvalue'] raises KeyError.
FilterSnps ==
    /\ pc = "filter"
    /\ orig_count' = Len(gwas_df)
    /\ IF filter_applies(pvalue_threshold) /\ gwas_df = <<>>
       THEN /\ Raise("KeyError: 'pvalue'")
            /\ UNCHANGED <<gwas_df, filtered_count>>
       ELSE /\ gwas_df' = filter_pvalue(gwas_df, pvalue_threshold)
            /\ filtered_count' = Len(gwas_df')
            /\ pc' = "annotate"
            /\ UNCHANGED raised
    /\ UNCHANGED run_vars
    /\ UNCHANGED <<gene_file, snp_file, distance_threshold, pvalue_threshold,
                   gene_df, snp_records, snp_i,
                   snp_gene_records, snp_gene_df, valid_snp_gene_df, row_i,
                   gene_snp_dict, result>>

\* l.152-253, one iteration.  A gene_df built from no record has no column, and
\* gene_df['chr'] raises KeyError.
AnnotateSnp ==
    /\ pc = "annotate"
    /\ snp_i < Len(gwas_df)
    /\ IF gene_df = <<>>
       THEN /\ Raise("KeyError: 'chr'")
            /\ UNCHANGED <<snp_i, snp_gene_records>>
       ELSE /\ \E block \in snp_blocks(gene_df, gwas_df[snp_i + 1], distance_threshold) :
                 snp_gene_records' = snp_gene_records \o block
            /\ snp_i' = snp_i + 1
            /\ UNCHANGED <<pc, raised>>
    /\ UNCHANGED run_vars
    /\ UNCHANGED <<gene_file, snp_file, distance_threshold, pvalue_threshold,
                   gene_df, snp_records, gwas_df, orig_count, filtered_count,
                   snp_gene_df, valid_snp_gene_df, row_i,
                   gene_snp_dict, result>>

\* l.256-263.  A snp_gene_df built from no record has no column, and
\* snp_gene_df['gene_id'] raises KeyError.
FilterValid ==
    /\ pc = "annotate"
    /\ snp_i = Len(gwas_df)
    /\ snp_gene_df' = make_snp_gene_df(snp_gene_records)
    /\ IF snp_gene_records = <<>>
       THEN /\ Raise("KeyError: 'gene_id'")
            /\ UNCHANGED valid_snp_gene_df
       ELSE /\ valid_snp_gene_df' = valid_rows(snp_gene_df')
            /\ pc' = "fold"
            /\ UNCHANGED raised
    /\ UNCHANGED run_vars
    /\ UNCHANGED <<gene_file, snp_file, distance_threshold, pvalue_threshold,
                   gene_df, snp_records, gwas_df, orig_count, filtered_count, snp_i,
                   snp_gene_records, row_i, gene_snp_dict, result>>

\* l.266-308, one iteration
FoldRow ==
    /\ pc = "fold"
    /\ row_i < Len(valid_snp_gene_df)
    /\ gene_snp_dict' = fold_row(gene_snp_dict, valid_snp_gene_df[row_i + 1])
    /\ row_i' = row_i + 1
    /\ UNCHANGED run_vars
    /\ UNCHANGED <<gene_file, snp_file, distance_threshold, pvalue_threshold,
                   gene_df, snp_records, gwas_df, orig_count, filtered_count, snp_i,
                   snp_gene_records, snp_gene_df, valid_snp_gene_df,
                   result, raised, pc>>

\* l.310-380
Return ==
    /\ pc = "fold"
    /\ row_i = Len(valid_snp_gene_df)
    /\ LET gene_snp_df == make_gene_snp_df(gene_snp_dict) IN
       result' = [gene_df |-> gene_df,
                  snp_gene_df |-> snp_gene_df,
                  gene_snp_df |-> gene_snp_df,
                  summary |-> make_summary(orig_count, filtered_count, gene_df,
                                           snp_gene_df, gene_snp_df,
                                           distance_threshold, pvalue_threshold),
                  output_files |-> output_files(distance_threshold, pvalue_threshold)]
    /\ pc' = "done"
    /\ UNCHANGED run_vars
    /\ UNCHANGED <<gene_file, snp_file, distance_threshold, pvalue_threshold,
                   gene_df, snp_records, gwas_df, orig_count, filtered_count, snp_i,
                   snp_gene_records, snp_gene_df, valid_snp_gene_df, row_i,
                   gene_snp_dict, raised>>

Next ==
    \/ LoadGenes
    \/ LoadSnps
    \/ FilterSnps
    \/ AnnotateSnp
    \/ FilterValid
    \/ FoldRow
    \/ Return

Spec == Init /\ [][Next]_vars

(***************************************************************************)
(* gwas_genes.run_gwas_genes, the per-file loop, gwas_genesImpl.py         *)
(* l.107-145                                                               *)
(***************************************************************************)
MaxFiles == 2

\* Impl l.108
RunDistanceThreshold == 10000

\* Impl l.109: 1E-5, for which the smallest positive p-value of the scale stands
RunPvalueThreshold == 1

\* GWAS files of one association group and at most one result tuple
RunSnpFiles ==
    {[association_details |-> <<[association_results |-> <<>>]>>]}
    \cup {[association_details |-> <<[association_results |-> <<Result(shape, 1)>>]>>] :
            shape \in ResultShapes}

RunGenomes == {CatalogPlain, [features |-> <<>>]}

InitRun ==
    /\ gene_file \in RunGenomes
    /\ gwas_files \in SeqsUpTo(RunSnpFiles, MaxFiles)
    /\ snp_file = [association_details |-> <<>>]
    /\ distance_threshold = RunDistanceThreshold
    /\ pvalue_threshold = RunPvalueThreshold
    /\ Entered
    /\ pc = "idle"
    /\ file_i = 0
    /\ all_csvs = <<>>
    /\ run_log = <<>>
    /\ run_raised = NoneS
    /\ run_pc = "loop"

\* fault model: no handler around the analysis
caught_nothing(exception) == FALSE

\* Impl l.139: except Exception
caught(exception) == TRUE

\* result[key] on the dict that analyze_snps_and_genes returns (l.370-380)
has_item(dict, key) == key \in DOMAIN dict

\* Impl l.111-130: the loop enters the try block and calls the analysis
StartAnalysis ==
    /\ run_pc = "loop"
    /\ file_i < Len(gwas_files)
    /\ run_log' = Append(run_log, [event |-> "running", file |-> file_i])
    /\ snp_file' = gwas_files[file_i + 1]
    /\ distance_threshold' = RunDistanceThreshold
    /\ pvalue_threshold' = RunPvalueThreshold
    /\ gene_df' = <<>>
    /\ snp_records' = <<>>
    /\ gwas_df' = <<>>
    /\ orig_count' = 0
    /\ filtered_count' = 0
    /\ snp_i' = 0
    /\ snp_gene_records' = <<>>
    /\ snp_gene_df' = <<>>
    /\ valid_snp_gene_df' = <<>>
    /\ row_i' = 0
    /\ gene_snp_dict' = <<>>
    /\ result' = Unset
    /\ raised' = NoneS
    /\ pc' = "load_genes"
    /\ run_pc' = "analyzing"
    /\ UNCHANGED <<gene_file, gwas_files, file_i, all_csvs, run_raised>>

\* Impl l.132-140: the rest of the try block after the call, or the handler.
\* The call has returned (pc = "done") or raised (pc = "raised").
EndAnalysis ==
    /\ run_pc = "analyzing"
    /\ pc \in {"done", "raised"}
    /\ LET exception ==
             IF pc = "raised" THEN raised
             ELSE IF ~has_item(result, "snp_analysis_file")
                  THEN "KeyError: 'snp_analysis_file'"
             ELSE IF ~has_item(result, "gene_centric_file")
                  THEN "KeyError: 'gene_centric_file'"
             ELSE NoneS
       IN  IF exception = NoneS
           THEN /\ all_csvs' = all_csvs \o <<result["snp_analysis_file"],
                                              result["gene_centric_file"]>>
                /\ run_log' = Append(run_log, [event |-> "complete", file |-> file_i,
                                               returned |-> TRUE])
                /\ file_i' = file_i + 1
                /\ run_pc' = "loop"
                /\ UNCHANGED run_raised
           ELSE IF caught(exception)
           THEN /\ run_log' = Append(run_log, [event |-> "error", file |-> file_i,
                                               returned |-> (pc = "done"),
                                               error |-> exception])
                /\ file_i' = file_i + 1
                /\ run_pc' = "loop"
                /\ UNCHANGED <<all_csvs, run_raised>>
           ELSE /\ run_raised' = exception
                /\ run_pc' = "raised"
                /\ UNCHANGED <<all_csvs, run_log, file_i>>
    /\ pc' = "idle"
    /\ UNCHANGED <<gene_file, snp_file, distance_threshold, pvalue_threshold,
                   gene_df, snp_records, gwas_df, orig_count, filtered_count, snp_i,
                   snp_gene_records, snp_gene_df, valid_snp_gene_df, row_i,
                   gene_snp_dict, result, raised, gwas_files>>

\* Impl l.142-145: the loop is over; the arguments of copy_and_zip_csvs are
\* evaluated, and result_csvs is a name that nothing defines.
Package ==
    /\ run_pc = "loop"
    /\ file_i = Len(gwas_files)
    /\ run_raised' = "NameError: name 'result_csvs' is not defined"
    /\ run_pc' = "raised"
    /\ UNCHANGED <<gene_file, snp_file, distance_threshold, pvalue_threshold,
                   gene_df, snp_records, gwas_df, orig_count, filtered_count, snp_i,
                   snp_gene_records, snp_gene_df, valid_snp_gene_df, row_i,
                   gene_snp_dict, result, raised, pc,
                   gwas_files, file_i, all_csvs, run_log>>

NextRun ==
    \/ StartAnalysis
    \/ LoadGenes
    \/ LoadSnps
    \/ FilterSnps
    \/ AnnotateSnp
    \/ FilterValid
    \/ FoldRow
    \/ Return
    \/ EndAnalysis
    \/ Package

SpecRun == InitRun /\ [][NextRun]_vars

(***************************************************************************)
(* Properties                                                              *)
(***************************************************************************)
\* the association records of the SNP with index label idx, in emission order
BlockOf(idx) == SelectSeq(snp_gene_records, LAMBDA r : r.snp_idx = idx)

\* distance of a position to the closed interval [lo, hi]
IntervalDistance(pos, lo, hi) ==
    IF lo <= pos /\ pos <= hi THEN 0
    ELSE IF Abs(pos - lo) <= Abs(pos - hi) THEN Abs(pos - lo) ELSE Abs(pos - hi)

\* the catalog genes in reach of a SNP
InReach(snp) ==
    {k \in 1..Len(gene_df) :
       /\ gene_df[k].chr = snp.chr
       /\ IntervalDistance(snp.pos, gene_df[k].start, gene_df[k].end) <= distance_threshold}

AnnotatorEnded == pc \in {"fold", "done", "raised"}

\* C1: every gene record loaded from a (coordinate, strand, length) triple has
\* end - start = length; on + start = coordinate - 1 and end = start + length,
\* on - end = coordinate and start = end - length; one record per feature.
C1_NormalizedCoordinates ==
    pc # "load_genes" =>
      /\ Len(gene_df) = Len(gene_file.features)
      /\ \A i \in 1..Len(gene_df) :
           LET given == gene_file.features[i].location[1]
               gene == gene_df[i]
           IN  /\ gene.end - gene.start = given[4]
               /\ given[3] = "+" => gene.start = given[2] - 1 /\ gene.end = gene.start + given[4]
               /\ given[3] = "-" => gene.end = given[2] /\ gene.start = gene.end - given[4]

C1_Witness ==
    /\ pc = "load_snps"
    /\ \E i, j \in 1..Len(gene_df) :
         /\ gene_df[i].orientation = "+" /\ gene_df[i].end - gene_df[i].start = 1
         /\ gene_df[j].orientation = "-" /\ gene_df[j].end - gene_df[j].start = 2

IsNullAssociation(r) ==
    /\ r.gene_id = NoneS
    /\ r.snp_position_category = NoneS
    /\ r.gene_start = NoneV /\ r.gene_end = NoneV /\ r.gene_orientation = NoneS
    /\ r.distance = NoneV /\ r.gene_function = NoneS /\ r.gene_go_terms = NoneS

\* C3: once the annotator has ended, every retained SNP with no gene on its
\* chromosome, or with every gene of its chromosome farther than
\* distance_threshold, has exactly one association record, with gene_id,
\* position category and the other gene fields null.
C3_NullAssociation ==
    AnnotatorEnded =>
      \A k \in 1..Len(gwas_df) :
        InReach(gwas_df[k]) = {} =>
          /\ Len(BlockOf(gwas_df[k].idx)) = 1
          /\ IsNullAssociation(BlockOf(gwas_df[k].idx)[1])

\* C3 over the runs whose gene catalog holds at least one feature
C3_NullAssociationNonEmptyCatalog ==
    (AnnotatorEnded /\ gene_file.features # <<>>) =>
      \A k \in 1..Len(gwas_df) :
        InReach(gwas_df[k]) = {} =>
          /\ Len(BlockOf(gwas_df[k].idx)) = 1
          /\ IsNullAssociation(BlockOf(gwas_df[k].idx)[1])

\* C4: every annotated SNP with a gene in reach has one record per catalog
\* gene of its chromosome at distance <= distance_threshold, and no other.
C4_AllGenesInReach ==
    \A k \in 1..snp_i :
      LET block == BlockOf(gwas_df[k].idx) IN
      InReach(gwas_df[k]) # {} =>
        /\ {block[n].gene_idx : n \in 1..Len(block)}
             = {gene_df[g].idx : g \in InReach(gwas_df[k])}
        /\ Len(block) = Cardinality(InReach(gwas_df[k]))
        /\ \A n \in 1..Len(block) :
             \E g \in InReach(gwas_df[k]) :
               /\ gene_df[g].idx = block[n].gene_idx
               /\ gene_df[g].gene_id = block[n].gene_id
               /\ gene_df[g].start = block[n].gene_start
               /\ gene_df[g].end = block[n].gene_end

C4_Witness ==
    /\ snp_i = 1
    /\ Len(gene_df) = 2
    /\ \E n \in 1..Len(snp_gene_records) :
         /\ snp_gene_records[n].gene_id # NoneS
         /\ snp_gene_records[n].distance = distance_threshold
         /\ distance_threshold > 0
    /\ \/ Len(snp_gene_records) = 2
       \/ \E g \in 1..2 : gene_df[g].chr = gwas_df[1].chr /\ g \notin InReach(gwas_df[1])

\* C5: within the records of one SNP, distances ascend, and records of equal
\* distance follow the order of their genes in the catalog.
C5_StableAscendingOrder ==
    \A m, n \in 1..Len(snp_gene_records) :
      LET a == snp_gene_records[m]
          b == snp_gene_records[n]
      IN  (m < n /\ a.snp_idx = b.snp_idx /\ a.gene_id # NoneS /\ b.gene_id # NoneS) =>
            /\ a.distance <= b.distance
            /\ a.distance = b.distance => a.gene_idx < b.gene_idx

\* C5 without the order among equal distances
C5_AscendingOrder ==
    \A m, n \in 1..Len(snp_gene_records) :
      LET a == snp_gene_records[m]
          b == snp_gene_records[n]
      IN  (m < n /\ a.snp_idx = b.snp_idx /\ a.gene_id # NoneS /\ b.gene_id # NoneS) =>
            a.distance <= b.distance

\* the record of a SNP at pos against one gene [start, end] of the given strand
OneGeneRecord(pos, start, end, strand) ==
    LET gene == [idx |-> 0, gene_id |-> "g", function |-> NoneS, go_terms |-> NoneS,
                 chr |-> "chr1", orientation |-> strand, start |-> start, end |-> end]
        snp == [idx |-> 0, chr |-> "chr1", snp_id |-> "rs", pos |-> pos, pvalue |-> NoneV]
    IN  gene_association(snp, genes_on_chr(<<gene>>, "chr1", pos)[1])

\* C6: on every record whose SNP is outside its gene the category is relative
\* to the strand: on + before the start is 5' and after the end is 3', on - after
\* the end is 5' and before the start is 3'.  With gene [1000, 2000]: on +, a
\* SNP at 500 is at distance 500 and 5', at 2500 at distance 500 and 3', at 1500
\* at distance 0 within the gene; on -, 500 is 3' and 2500 is 5'.
C6_StrandRelativeCategory ==
    /\ \A n \in 1..Len(snp_gene_records) :
         LET r == snp_gene_records[n] IN
         (r.gene_id # NoneS /\ ~r.is_within_gene) =>
           /\ (r.gene_orientation = "+" /\ r.snp_pos < r.gene_start) => r.snp_position_category = "5'"
           /\ (r.gene_orientation = "+" /\ r.snp_pos > r.gene_end) => r.snp_position_category = "3'"
           /\ (r.gene_orientation = "-" /\ r.snp_pos > r.gene_end) => r.snp_position_category = "5'"
           /\ (r.gene_orientation = "-" /\ r.snp_pos < r.gene_start) => r.snp_position_category = "3'"
    /\ pc = "done" =>
         /\ OneGeneRecord(500, 1000, 2000, "+").distance = 500
         /\ OneGeneRecord(500, 1000, 2000, "+").snp_position_category = "5'"
         /\ OneGeneRecord(2500, 1000, 2000, "+").distance = 500
         /\ OneGeneRecord(2500, 1000, 2000, "+").snp_position_category = "3'"
         /\ OneGeneRecord(1500, 1000, 2000, "+").distance = 0
         /\ OneGeneRecord(1500, 1000, 2000, "+").snp_position_category = "within gene"
         /\ OneGeneRecord(500, 1000, 2000, "-").snp_position_category = "3'"
         /\ OneGeneRecord(2500, 1000, 2000, "-").snp_position_category = "5'"

C6_Witness ==
    /\ pc = "done"
    /\ \E m, n \in 1..Len(snp_gene_records) :
         /\ snp_gene_records[m].gene_orientation = "-"
         /\ snp_gene_records[m].snp_position_category = "5'"
         /\ snp_gene_records[n].gene_orientation = "+"
         /\ snp_gene_records[n].snp_position_category = "3'"

\* the index labels of a DataFrame's rows, in row order
Labels(df) == [k \in 1..Len(df) |-> df[k].idx]

\* the positions of a sequence that satisfy Keep, ascending, counted from 0
RECURSIVE LabelsWhere(_, _, _)
LabelsWhere(records, Keep(_), from) ==
    IF from > Len(records) THEN <<>>
    ELSE (IF Keep(records[from]) THEN <<from - 1>> ELSE <<>>)
         \o LabelsWhere(records, Keep, from + 1)

HasPvalueUpTo(threshold, record) ==
    record.pvalue # NoneV /\ record.pvalue <= threshold

\* C7: past the filter, with pvalue_threshold < 1.0 the retained SNPs are
\* exactly the loaded SNPs with pvalue <= threshold, in order, and with
\* pvalue_threshold >= 1.0 they are all the loaded SNPs; the summary reports
\* the count before the filter as total_snps and the count after it as
\* filtered_snps, and filtered_snps <= total_snps.
C7_PvalueFilter ==
    /\ pc \in {"annotate", "fold", "done"} =>
         /\ pvalue_threshold < POne =>
              Labels(gwas_df)
                = LabelsWhere(snp_records,
                              LAMBDA rec : HasPvalueUpTo(pvalue_threshold, rec), 1)
         /\ pvalue_threshold >= POne =>
              Labels(gwas_df) = [k \in 1..Len(snp_records) |-> k - 1]
         /\ \A k \in 1..Len(gwas_df) :
              LET loaded == snp_records[gwas_df[k].idx + 1] IN
              /\ gwas_df[k].chr = loaded.chr
              /\ gwas_df[k].snp_id = loaded.snp_id
              /\ gwas_df[k].pos = loaded.pos
              /\ snp_pvalue(gwas_df[k]) = loaded.pvalue
    /\ pc = "done" =>
         /\ result.summary.total_snps = Len(snp_records)
         /\ result.summary.filtered_snps = Len(gwas_df)
         /\ result.summary.filtered_snps <= result.summary.total_snps

C7_Witness ==
    /\ pc = "done"
    /\ pvalue_threshold < POne
    /\ result.summary.total_snps = 2
    /\ result.summary.filtered_snps = 1
    /\ gwas_df[1].pvalue = pvalue_threshold

RetainedLabels(threshold) ==
    LET df == filter_pvalue(make_gwas_df(snp_records), threshold)
    IN  {df[k].idx : k \in 1..Len(df)}

RetainedCount(threshold) == Len(filter_pvalue(make_gwas_df(snp_records), threshold))

\* C8: over the same loaded SNPs and any thresholds t1 <= t2, the SNPs retained
\* under t1 are among those retained under t2, and are no more in number.
C8_FilterMonotonic ==
    pc # "load_genes" /\ pc # "load_snps" =>
      \A t1, t2 \in 0..(POne + 1) :
        t1 <= t2 =>
          /\ RetainedLabels(t1) \subseteq RetainedLabels(t2)
          /\ RetainedCount(t1) <= RetainedCount(t2)

C8_Witness ==
    /\ pc = "filter"
    /\ RetainedCount(1) = 1
    /\ RetainedCount(2) = 2
    /\ RetainedCount(POne) = 2

\* every result tuple of the file, group after group
RECURSIVE AllResults(_)
AllResults(details) ==
    IF details = <<>> THEN <<>>
    ELSE Head(details).association_results \o AllResults(Tail(details))

\* C9: the loaded SNPs are, in input order across the association groups, the
\* result tuples of at least 5 fields, fields 0..4 read as chromosome, id,
\* position, p-value and auxiliary value; a shorter tuple is skipped, and the
\* load raises nothing.
C9_LoaderSkipsShortTuples ==
    pc # "load_genes" /\ pc # "load_snps" =>
      LET long == SelectSeq(AllResults(snp_file.association_details),
                            LAMBDA res : Len(res) >= 5)
      IN  /\ Len(snp_records) = Len(long)
          /\ \A k \in 1..Len(long) :
               /\ snp_records[k].chr = long[k][1]
               /\ snp_records[k].snp_id = long[k][2]
               /\ snp_records[k].pos = long[k][3]
               /\ snp_records[k].pvalue = long[k][4]
               /\ snp_records[k].additional_value = long[k][5]
          /\ pc = "filter" => raised = NoneS

C9_Witness ==
    /\ pc = "filter"
    /\ Len(snp_file.association_details) = 2
    /\ Len(AllResults(snp_file.association_details)) = 2
    /\ Len(AllResults(snp_file.association_details)[1]) = 4
    /\ Len(snp_records) = 1
    /\ snp_records[1].snp_id = "rs2"

RECURSIVE SumCounts(_)
SumCounts(entries) ==
    IF entries = <<>> THEN 0 ELSE Head(entries).snp_count + SumCounts(Tail(entries))

\* C10: after aggregation the snp_count of the gene-centric records add up to
\* the number of association records with a gene_id, and each is >= 1.
C10_CountsAddUp ==
    pc = "done" =>
      /\ SumCounts(result.gene_snp_df)
           = Len(SelectSeq(snp_gene_records, LAMBDA r : r.gene_id # NoneS))
      /\ \A k \in 1..Len(result.gene_snp_df) : result.gene_snp_df[k].snp_count >= 1

C10_Witness ==
    /\ pc = "done"
    /\ Len(result.gene_snp_df) = 2
    /\ \E k \in 1..2 : result.gene_snp_df[k].snp_count = 2
    /\ Len(snp_gene_records) = 3

(***************************************************************************)
(* Gene-centric aggregation, l.260-320                                     *)
(***************************************************************************)
IsNull(p) == p \in {NoneV, NaN}

\* the p-values that the association records of a gene carry
CarriedPvalues(gene_id) ==
    {snp_gene_records[k].pvalue : k \in
       {n \in 1..Len(snp_gene_records) :
          /\ snp_gene_records[n].gene_id = gene_id
          /\ ~IsNull(snp_gene_records[n].pvalue)}}

MinOf(S) == CHOOSE m \in S : \A x \in S : m <= x

\* C11: in the returned gene-centric table, min_pvalue of a gene is the
\* minimum of the non-null p-values among the gene's association records,
\* and it is null exactly when none of these records carries a p-value.
C11_MinPvalue ==
    pc = "done" =>
      \A k \in 1..Len(result.gene_snp_df) :
        LET rec == result.gene_snp_df[k]
            carried == CarriedPvalues(rec.gene_id)
        IN  IF carried = {}
            THEN IsNull(rec.min_pvalue)
            ELSE rec.min_pvalue = MinOf(carried)

\* the gene_ids of the association table, and where each first appears
GeneIds ==
    {snp_gene_records[n].gene_id : n \in 1..Len(snp_gene_records)} \ {NoneS}

FirstIndex(gene_id) ==
    CHOOSE n \in 1..Len(snp_gene_records) :
      /\ snp_gene_records[n].gene_id = gene_id
      /\ \A j \in 1..(n - 1) : snp_gene_records[j].gene_id # gene_id

IsGene(gene_id, row) == row.gene_id = gene_id

\* the rows of the returned association table that belong to a gene, in order
RowsOfGene(gene_id) ==
    SelectSeq(result.snp_gene_df, LAMBDA row : IsGene(gene_id, row))

SnpInfos(rows) == [n \in 1..Len(rows) |-> snp_info(rows[n])]

\* C12: the returned gene-centric table has exactly one record per distinct
\* non-null gene_id of the association table, in order of first appearance;
\* the gene metadata of a record are those of the first association of the
\* gene, and associated_snps lists the gene's associations in encounter order.
C12_OneRecordPerGene ==
    pc = "done" =>
      LET centric == result.gene_snp_df
      IN  /\ Len(centric) = Cardinality(GeneIds)
          /\ \A k \in 1..Len(centric) : centric[k].gene_id \in GeneIds
          /\ \A k1, k2 \in 1..Len(centric) :
                k1 < k2 => FirstIndex(centric[k1].gene_id) < FirstIndex(centric[k2].gene_id)
          /\ \A k \in 1..Len(centric) :
                LET first == snp_gene_records[FirstIndex(centric[k].gene_id)]
                IN  /\ centric[k].chr = first.snp_chr
                    /\ centric[k].gene_start = first.gene_start
                    /\ centric[k].gene_end = first.gene_end
                    /\ centric[k].gene_orientation = first.gene_orientation
                    /\ centric[k].gene_function = first.gene_function
                    /\ centric[k].gene_go_terms = first.gene_go_terms
                    /\ centric[k].associated_snps =
                         join_str(", ", SnpInfos(RowsOfGene(centric[k].gene_id)))

\* a returned table where one gene_id has two associations whose gene
\* coordinates differ, next to an association without gene
C12_Witness ==
    /\ pc = "done"
    /\ \E n1, n2 \in 1..Len(snp_gene_records) :
         /\ n1 < n2
         /\ snp_gene_records[n1].gene_id = snp_gene_records[n2].gene_id
         /\ snp_gene_records[n1].gene_id # NoneS
         /\ snp_gene_records[n1].gene_start # snp_gene_records[n2].gene_start
    /\ \E n \in 1..Len(snp_gene_records) : snp_gene_records[n].gene_id = NoneS

(***************************************************************************)
(* Failures, l.136-160 and l.255-266                                       *)
(***************************************************************************)
\* C13: on well-typed input analyze_snps_and_genes never fails, whatever the
\* catalog, the variants loaded or retained, and the thresholds.
C13_NeverFails == pc # "raised"

(***************************************************************************)
(* Missing optional fields, l.87-97, l.155 and l.266-308                   *)
(***************************************************************************)
CarriesPvalue(row) == ~IsNull(row.pvalue)

\* the associated_snps entry of a row that shows no p-value
InfoWithoutPvalue(row) ==
    row.snp_id
    \o (IF row.is_within_gene THEN " [within gene]"
        ELSE " [" \o ToString(row.distance) \o ", " \o row.snp_position_category \o "]")

\* min_pvalue of a gene when only the rows that carry a p-value are folded
MinPvalueOfCarrying(gene_id) ==
    LET dict == FoldAll(<<>>, SelectSeq(valid_snp_gene_df, CarriesPvalue))
    IN  IF has_key(dict, gene_id)
        THEN dict[CHOOSE k \in 1..Len(dict) : dict[k].gene_id = gene_id].min_pvalue
        ELSE NoneV

\* C14: missing optional fields never raise and stay null in every derived
\* record: a feature without functions or without GO terms loads with
\* function or go_terms null while the load goes on; a variant with a null
\* pvalue has pvalue null in its association records, shows no "(p=...)"
\* text in associated_snps and has no effect on min_pvalue.
C14_MissingOptionalFields ==
    /\ pc \notin {"load_genes", "idle"} =>
         /\ Len(gene_df) = Len(gene_file.features)
         /\ \A i \in 1..Len(gene_df) :
               /\ gene_file.features[i].functions = <<>> => gene_df[i].function = NoneS
               /\ (\/ gene_file.features[i].ontology_terms = <<>>
                   \/ gene_file.features[i].ontology_terms[1].GO = <<>>)
                    => gene_df[i].go_terms = NoneS
    /\ \A n \in 1..Len(snp_gene_records) :
         \A s \in 1..Len(gwas_df) :
           (gwas_df[s].idx = snp_gene_records[n].snp_idx /\ IsNull(gwas_df[s].pvalue))
             => snp_gene_records[n].pvalue = NoneV
    /\ pc = "done" =>
         \A k \in 1..Len(gene_snp_dict) :
           LET rows == RowsOfGene(gene_snp_dict[k].gene_id)
               min_carrying == MinPvalueOfCarrying(gene_snp_dict[k].gene_id)
           IN  /\ \A n \in 1..Len(rows) :
                     ~CarriesPvalue(rows[n])
                       => gene_snp_dict[k].associated_snps[n] = InfoWithoutPvalue(rows[n])
               /\ IF IsNull(min_carrying)
                  THEN IsNull(gene_snp_dict[k].min_pvalue)
                  ELSE gene_snp_dict[k].min_pvalue = min_carrying

RowOrders(s) ==
    {[i \in 1..Len(s) |-> s[f[i]]] :
       f \in {g \in [1..Len(s) -> 1..Len(s)] :
                \A i, j \in 1..Len(s) : i # j => g[i] # g[j]}}

\* C17: folding any permutation of the valid association rows gives every
\* gene the same snp_count and the same min_pvalue as the fold in table order.
C17_FoldOrderInsensitive ==
    pc = "done" =>
      \A perm \in RowOrders(valid_snp_gene_df) :
        LET dict == FoldAll(<<>>, perm)
        IN  /\ Len(dict) = Len(gene_snp_dict)
            /\ \A k \in 1..Len(gene_snp_dict) :
                  \E j \in 1..Len(dict) :
                    /\ dict[j].gene_id = gene_snp_dict[k].gene_id
                    /\ dict[j].snp_count = gene_snp_dict[k].snp_count
                    /\ dict[j].min_pvalue = gene_snp_dict[k].min_pvalue

(***************************************************************************)
(* gwas_genes.run_gwas_genes, Impl l.110-150                               *)
(***************************************************************************)
IsRunning(entry) == entry.event = "running"

\* the attempts that the loop has logged
Attempts == SelectSeq(run_log, IsRunning)

\* C16: the per-file loop attempts the analysis of every GWAS file, in file
\* order; an exception raised while a file is analysed ends that file's
\* analysis only: run_gwas_genes does not end before every file is attempted.
C16_EveryFileAttempted ==
    /\ \A n \in 1..Len(Attempts) : Attempts[n].file = n - 1
    /\ Len(Attempts) = (IF run_pc = "analyzing" THEN file_i + 1 ELSE file_i)
    /\ run_pc = "raised" => Len(Attempts) = Len(gwas_files)

\* the analysis of the first file raised, and the second file was attempted
C16_Witness ==
    /\ Len(gwas_files) = 2
    /\ \E n \in 1..Len(run_log) :
         /\ run_log[n].event = "error"
         /\ run_log[n].file = 0
         /\ ~run_log[n].returned
    /\ \E n \in 1..Len(run_log) :
         /\ run_log[n].event = "running"
         /\ run_log[n].file = 1

\* the files whose call to analyze_snps_and_genes returned
ReturnedCalls ==
    {n \in 1..Len(run_log) : run_log[n].event # "running" /\ run_log[n].returned}

\* C19: all_csvs holds two paths, the SNP-analysis CSV and the gene-centric
\* CSV, per file whose call to analyze_snps_and_genes returned.
C19_TwoPathsPerAnalysedFile ==
    Len(all_csvs) = 2 * Cardinality(ReturnedCalls)

====
